---- MODULE Spec2Model ----
(***************************************************************************)
(* gocache: an in-process key/value cache with per-entry expiration, a     *)
(* background sweep goroutine (gcLoop) and gob snapshots (Save / Load).    *)
(* The model follows src/gocache/gocache.go statement by statement: every  *)
(* goroutine has a program counter, the sync.RWMutex is explicit, and the  *)
(* wall clock is a counter that every time.Now() call reads.               *)
(*                                                                         *)
(* The actions are written once.  The specifications at the end differ in  *)
(* the host they put around the cache: which calls the host goroutines     *)
(* make and with which arguments.                                          *)
(***************************************************************************)
EXTENDS Integers, Sequences, FiniteSets, TLC

(***************************************************************************)
(* Bounds of the model.                                                    *)
(***************************************************************************)
\* the wall clock runs from 0 to MaxTime
MaxTime == 2
\* width of the two's-complement integers standing for int64
IntBits == 3

\* the host goroutines calling the public API
Callers == {"c1", "c2"}
\* the goroutine started by NewCache
Reaper == "gc"
Procs == Callers \cup {Reaper}
NoProc == "none"

(***************************************************************************)
(* int64 arithmetic, scaled down to IntBits bits.                          *)
(***************************************************************************)
MaxInt == 2 ^ (IntBits - 1) - 1
MinInt == 0 - 2 ^ (IntBits - 1)
Wrap(x) == ((x - MinInt) % (2 ^ IntBits)) + MinInt

NoExpiration == -1
DefaultExpiration == 0

\* the durations a host passes: both sentinels, a short one, the largest one
Durations == {NoExpiration, DefaultExpiration, 1, MaxInt}

VARIABLES
    now,                \* time.Now().UnixNano()
    defaultExpiration,  \* Cache.defaultExpiration
    gcInterval,         \* Cache.gcInterval
    items,              \* Cache.items: a function from the stored keys to Items
    muWriter,           \* Cache.mu: the goroutine holding the exclusive lock
    muReaders,          \* Cache.mu: the goroutines holding the shared lock
    pc,                 \* position of every goroutine
    loc,                \* arguments and local variables of every goroutine
    ret,                \* the call that returned in the last step, and its results
    crashed,            \* an unrecovered panic has ended the process
    lastSet,            \* history: the pairs <<k, v>> a Set has just returned for
    buf,                \* the host's byte buffer: what the last Save wrote to it
    bufOf               \* history: the map that Save encoded into buf

vars == <<now, defaultExpiration, gcInterval, buf, bufOf, items, muWriter, muReaders,
          pc, loc, ret, crashed, lastSet>>

(***************************************************************************)
(* Item and the map.                                                       *)
(***************************************************************************)
Item(o, e) == [Object |-> o, Expiration |-> e]
EmptyMap == [k \in {} |-> Item("nil", 0)]
Put(m, k, it) == [x \in (DOMAIN m) \cup {k} |-> IF x = k THEN it ELSE m[x]]
Del(m, k) == [x \in (DOMAIN m) \ {k} |-> m[x]]

\* Item.Expired with the comparison of line 39 made inclusive
Expired_Inclusive(item, t) ==
    IF item.Expiration = 0 THEN FALSE ELSE t >= item.Expiration

\* Item.Expired, with t the value time.Now().UnixNano() returns
Expired(item, t) ==
    IF item.Expiration = 0 THEN FALSE ELSE t > item.Expiration

\* lines 76-78 and 92-94: the default duration is substituted
ResolveDuration(d) ==
    IF d = DefaultExpiration THEN defaultExpiration ELSE d

\* lines 79-81 and 95-97: time.Now().Add(d).UnixNano(), or the zero value
ResolveExpiration(d, t) ==
    IF d > 0 THEN Wrap(t + d) ELSE 0

\* Cache.get: <<object, found>>, with t the clock Expired reads
get(m, k, t) ==
    IF k \notin DOMAIN m THEN <<"nil", FALSE>>
    ELSE IF Expired(m[k], t) THEN <<"nil", FALSE>>
    ELSE <<m[k].Object, TRUE>>

\* line 67 without its test for the zero value
SweepTest_NoSentinel(item, t) == t > item.Expiration

\* the condition of line 67
SweepTest(item, t) == item.Expiration > 0 /\ t > item.Expiration

\* the loop of DeleteExpired, lines 66-70
Sweep(m, t) ==
    [k \in {x \in DOMAIN m : ~SweepTest(m[x], t)} |-> m[k]]

(***************************************************************************)
(* Locals and return values.                                               *)
(***************************************************************************)
Loc0 == [k |-> "", v |-> "", d |-> 0, e |-> 0, t |-> 0,
         src |-> << >>, snap |-> EmptyMap, rem |-> {}, fresh |-> FALSE]
\* who returned from which call on which key, and the results
Ret(p, op, k, obj, found, err, n) ==
    [who |-> p, op |-> op, k |-> k, obj |-> obj, found |-> found, err |-> err,
     n |-> n]
RetNone == Ret(NoProc, "none", "", "nil", FALSE, "nil", 0)
RetVoid(p, op, k) == Ret(p, op, k, "nil", FALSE, "nil", 0)
RetErr(p, op, k, err) == Ret(p, op, k, "nil", FALSE, err, 0)

\* the history of fresh Sets ends for k when another write touches k
Touch(k) == {x \in lastSet : x[1] /= k}

(***************************************************************************)
(* sync.RWMutex.  A goroutine blocked in Lock keeps later RLock calls out. *)
(***************************************************************************)
WaitLockPcs == {"SetWait", "DeleteWait", "AddWait", "ReplaceWait", "DEWait",
                "ClearWait", "LoadWait"}
WaitRLockPcs == {"GetWait", "SaveWait", "CountWait"}
LockWaiters == {p \in Procs : pc[p] \in WaitLockPcs}

\* a Lock that lets a second writer in
CanLock_NotExclusive(p) == muReaders = {}

\* an RLock that does not look at the writer
CanRLock_IgnoresWriter(p) == LockWaiters = {}

\* a Lock that does not wait for the readers
CanLock_IgnoresReaders(p) == muWriter = NoProc

CanLock(p) == muWriter = NoProc /\ muReaders = {}
CanRLock(p) == muWriter = NoProc /\ LockWaiters = {}

BodyOf(w) ==
    CASE w = "SetWait" -> "SetBody"
      [] w = "DeleteWait" -> "DeleteBody"
      [] w = "AddWait" -> "AddCheck"
      [] w = "ReplaceWait" -> "ReplaceCheck"
      [] w = "DEWait" -> "DEBody"
      [] w = "GetWait" -> "GetBody"
      [] w = "ClearWait" -> "ClearBody"
      [] w = "LoadWait" -> "LoadBody"
      [] w = "SaveWait" -> "SaveBody"
      [] w = "CountWait" -> "CountBody"

\* c.mu.Lock() returns
Lock(p) ==
    /\ ~crashed
    /\ pc[p] \in WaitLockPcs
    /\ CanLock(p)
    /\ muWriter' = p
    /\ pc' = [pc EXCEPT ![p] = BodyOf(pc[p])]
    /\ ret' = RetNone
    /\ loc' = [loc EXCEPT ![p].fresh = (pc[p] = "LoadWait" /\ items = EmptyMap)]
    /\ UNCHANGED <<now, defaultExpiration, gcInterval, buf, bufOf, items, muReaders,
                   crashed, lastSet>>

\* c.mu.RLock() returns
RLock(p) ==
    /\ ~crashed
    /\ pc[p] \in WaitRLockPcs
    /\ CanRLock(p)
    /\ muReaders' = muReaders \cup {p}
    /\ pc' = [pc EXCEPT ![p] = BodyOf(pc[p])]
    /\ ret' = RetNone
    /\ UNCHANGED <<now, defaultExpiration, gcInterval, buf, bufOf, items, muWriter, loc,
                   crashed, lastSet>>

\* where a goroutine goes when its call returns
Home(p) == IF p = Reaper THEN "gcSelect" ELSE "idle"

(***************************************************************************)
(* The clock.                                                              *)
(***************************************************************************)
Tick ==
    /\ ~crashed
    /\ now < MaxTime
    /\ now' = now + 1
    /\ ret' = RetNone
    /\ lastSet' = {}
    /\ UNCHANGED <<defaultExpiration, gcInterval, buf, bufOf, items, muWriter, muReaders,
                   pc, loc, crashed>>

(***************************************************************************)
(* Set(k, v, d), lines 74-88                                               *)
(***************************************************************************)
\* lines 75-81: the expiration is computed before the lock is asked for
SetCall(p, K, V, D) ==
    /\ ~crashed
    /\ pc[p] = "idle"
    /\ \E k \in K, v \in V, d \in D :
          LET dd == ResolveDuration(d)
          IN  loc' = [loc EXCEPT ![p] = [Loc0 EXCEPT !.k = k, !.v = v, !.d = dd,
                                         !.e = ResolveExpiration(dd, now)]]
    /\ pc' = [pc EXCEPT ![p] = "SetCall"]
    /\ ret' = RetNone
    /\ UNCHANGED <<now, defaultExpiration, gcInterval, buf, bufOf, items, muWriter, muReaders,
                   crashed, lastSet>>

\* line 82: c.mu.Lock() is called
SetLock(p) ==
    /\ ~crashed
    /\ pc[p] = "SetCall"
    /\ pc' = [pc EXCEPT ![p] = "SetWait"]
    /\ ret' = RetNone
    /\ UNCHANGED <<now, defaultExpiration, gcInterval, buf, bufOf, items, muWriter, muReaders,
                   loc, crashed, lastSet>>

\* lines 84-88: the write, then the deferred Unlock
SetBody(p) ==
    /\ ~crashed
    /\ pc[p] = "SetBody"
    /\ items' = Put(items, loc[p].k, Item(loc[p].v, loc[p].e))
    /\ muWriter' = NoProc
    /\ pc' = [pc EXCEPT ![p] = "idle"]
    /\ ret' = RetVoid(p, "Set", loc[p].k)
    /\ lastSet' = Touch(loc[p].k) \cup
                    (IF loc[p].d > 0 THEN {<<loc[p].k, loc[p].v>>} ELSE {})
    /\ loc' = [loc EXCEPT ![p] = Loc0]
    /\ UNCHANGED <<now, defaultExpiration, gcInterval, buf, bufOf, muReaders, crashed>>

(***************************************************************************)
(* Get(k), lines 105-116                                                   *)
(***************************************************************************)
\* line 106: c.mu.RLock() is called
GetCall(p, K) ==
    /\ ~crashed
    /\ pc[p] = "idle"
    /\ \E k \in K : loc' = [loc EXCEPT ![p] = [Loc0 EXCEPT !.k = k]]
    /\ pc' = [pc EXCEPT ![p] = "GetWait"]
    /\ ret' = RetNone
    /\ UNCHANGED <<now, defaultExpiration, gcInterval, buf, bufOf, items, muWriter, muReaders,
                   crashed, lastSet>>

\* a Get that deletes the expired entry it comes across
GetBody_LazyDelete(p) ==
    /\ ~crashed
    /\ pc[p] = "GetBody"
    /\ LET r == get(items, loc[p].k, now)
       IN  /\ ret' = Ret(p, "Get", loc[p].k, r[1], r[2], "nil", 0)
           /\ items' = IF r[2] THEN items ELSE Del(items, loc[p].k)
    /\ muReaders' = muReaders \ {p}
    /\ pc' = [pc EXCEPT ![p] = "idle"]
    /\ loc' = [loc EXCEPT ![p] = Loc0]
    /\ UNCHANGED <<now, defaultExpiration, gcInterval, buf, bufOf, muWriter, crashed,
                   lastSet>>

\* lines 108-115, then the deferred RUnlock
GetBody(p) ==
    /\ ~crashed
    /\ pc[p] = "GetBody"
    /\ LET r == get(items, loc[p].k, now)
       IN  ret' = Ret(p, "Get", loc[p].k, r[1], r[2], "nil", 0)
    /\ muReaders' = muReaders \ {p}
    /\ pc' = [pc EXCEPT ![p] = "idle"]
    /\ loc' = [loc EXCEPT ![p] = Loc0]
    /\ UNCHANGED <<now, defaultExpiration, gcInterval, buf, bufOf, items, muWriter, crashed,
                   lastSet>>

(***************************************************************************)
(* Delete(k), lines 154-158                                                *)
(***************************************************************************)
DeleteCall(p, K) ==
    /\ ~crashed
    /\ pc[p] = "idle"
    /\ \E k \in K : loc' = [loc EXCEPT ![p] = [Loc0 EXCEPT !.k = k]]
    /\ pc' = [pc EXCEPT ![p] = "DeleteWait"]
    /\ ret' = RetNone
    /\ UNCHANGED <<now, defaultExpiration, gcInterval, buf, bufOf, items, muWriter, muReaders,
                   crashed, lastSet>>

DeleteBody(p) ==
    /\ ~crashed
    /\ pc[p] = "DeleteBody"
    /\ items' = Del(items, loc[p].k)
    /\ muWriter' = NoProc
    /\ pc' = [pc EXCEPT ![p] = "idle"]
    /\ ret' = RetVoid(p, "Delete", loc[p].k)
    /\ lastSet' = Touch(loc[p].k)
    /\ loc' = [loc EXCEPT ![p] = Loc0]
    /\ UNCHANGED <<now, defaultExpiration, gcInterval, buf, bufOf, muReaders, crashed>>

(***************************************************************************)
(* Add(k, v, d), lines 130-139, and Replace(k, v, d), lines 142-151        *)
(***************************************************************************)
\* line 131 / 143: c.mu.Lock() is called
AddCall(p, K, V, D) ==
    /\ ~crashed
    /\ pc[p] = "idle"
    /\ \E k \in K, v \in V, d \in D :
          loc' = [loc EXCEPT ![p] = [Loc0 EXCEPT !.k = k, !.v = v, !.d = d]]
    /\ pc' = [pc EXCEPT ![p] = "AddWait"]
    /\ ret' = RetNone
    /\ UNCHANGED <<now, defaultExpiration, gcInterval, buf, bufOf, items, muWriter, muReaders,
                   crashed, lastSet>>

ReplaceCall(p, K, V, D) ==
    /\ ~crashed
    /\ pc[p] = "idle"
    /\ \E k \in K, v \in V, d \in D :
          loc' = [loc EXCEPT ![p] = [Loc0 EXCEPT !.k = k, !.v = v, !.d = d]]
    /\ pc' = [pc EXCEPT ![p] = "ReplaceWait"]
    /\ ret' = RetNone
    /\ UNCHANGED <<now, defaultExpiration, gcInterval, buf, bufOf, items, muWriter, muReaders,
                   crashed, lastSet>>

\* the tests of lines 134 and 146 left out
AddProceeds_Always(found) == TRUE
ReplaceProceeds_Always(found) == TRUE

\* line 134: Add goes on to set when get does not find the key
AddProceeds(found) == ~found
\* line 146: Replace goes on to set when get finds the key
ReplaceProceeds(found) == found

\* lines 133-136: get, and the error return with its deferred Unlock
AddCheck(p) ==
    /\ ~crashed
    /\ pc[p] = "AddCheck"
    /\ LET r == get(items, loc[p].k, now)
       IN  IF AddProceeds(r[2])
           THEN /\ pc' = [pc EXCEPT ![p] = "AddSet"]
                /\ ret' = RetNone
                /\ UNCHANGED <<muWriter, loc>>
           ELSE /\ pc' = [pc EXCEPT ![p] = "idle"]
                /\ ret' = RetErr(p, "Add", loc[p].k, "AlreadyExists")
                /\ muWriter' = NoProc
                /\ loc' = [loc EXCEPT ![p] = Loc0]
    /\ UNCHANGED <<now, defaultExpiration, gcInterval, buf, bufOf, items, muReaders, crashed,
                   lastSet>>

\* lines 145-148
ReplaceCheck(p) ==
    /\ ~crashed
    /\ pc[p] = "ReplaceCheck"
    /\ LET r == get(items, loc[p].k, now)
       IN  IF ReplaceProceeds(r[2])
           THEN /\ pc' = [pc EXCEPT ![p] = "ReplaceSet"]
                /\ ret' = RetNone
                /\ UNCHANGED <<muWriter, loc>>
           ELSE /\ pc' = [pc EXCEPT ![p] = "idle"]
                /\ ret' = RetErr(p, "Replace", loc[p].k, "NotFound")
                /\ muWriter' = NoProc
                /\ loc' = [loc EXCEPT ![p] = Loc0]
    /\ UNCHANGED <<now, defaultExpiration, gcInterval, buf, bufOf, items, muReaders, crashed,
                   lastSet>>

\* Cache.set, lines 90-102, called at line 137 / 149 with the lock held; the
\* caller then returns nil and its deferred Unlock runs
set(p, op) ==
    /\ LET dd == ResolveDuration(loc[p].d)
       IN  items' = Put(items, loc[p].k,
                        Item(loc[p].v, ResolveExpiration(dd, now)))
    /\ muWriter' = NoProc
    /\ pc' = [pc EXCEPT ![p] = "idle"]
    /\ ret' = RetVoid(p, op, loc[p].k)
    /\ lastSet' = Touch(loc[p].k)
    /\ loc' = [loc EXCEPT ![p] = Loc0]
    /\ UNCHANGED <<now, defaultExpiration, gcInterval, buf, bufOf, muReaders, crashed>>

AddSet(p) ==
    /\ ~crashed
    /\ pc[p] = "AddSet"
    /\ set(p, "Add")

ReplaceSet(p) ==
    /\ ~crashed
    /\ pc[p] = "ReplaceSet"
    /\ set(p, "Replace")

(***************************************************************************)
(* Clear, lines 231-235                                                    *)
(***************************************************************************)
ClearCall(p) ==
    /\ ~crashed
    /\ pc[p] = "idle"
    /\ pc' = [pc EXCEPT ![p] = "ClearWait"]
    /\ ret' = RetNone
    /\ UNCHANGED <<now, defaultExpiration, gcInterval, buf, bufOf, items, muWriter,
                   muReaders, loc, crashed, lastSet>>

ClearBody(p) ==
    /\ ~crashed
    /\ pc[p] = "ClearBody"
    /\ items' = EmptyMap
    /\ muWriter' = NoProc
    /\ pc' = [pc EXCEPT ![p] = "idle"]
    /\ ret' = RetVoid(p, "Clear", "")
    /\ lastSet' = {}
    /\ loc' = [loc EXCEPT ![p] = Loc0]
    /\ UNCHANGED <<now, defaultExpiration, gcInterval, buf, bufOf, muReaders, crashed>>

(***************************************************************************)
(* Count, lines 224-228                                                    *)
(***************************************************************************)
\* line 225: c.mu.RLock() is called
CountCall(p) ==
    /\ ~crashed
    /\ pc[p] = "idle"
    /\ pc' = [pc EXCEPT ![p] = "CountWait"]
    /\ ret' = RetNone
    /\ UNCHANGED <<now, defaultExpiration, gcInterval, buf, bufOf, items, muWriter,
                   muReaders, loc, crashed, lastSet>>

\* line 227 and the deferred RUnlock
CountBody(p) ==
    /\ ~crashed
    /\ pc[p] = "CountBody"
    /\ ret' = Ret(p, "Count", "", "nil", FALSE, "nil", Cardinality(DOMAIN items))
    /\ muReaders' = muReaders \ {p}
    /\ pc' = [pc EXCEPT ![p] = "idle"]
    /\ loc' = [loc EXCEPT ![p] = Loc0]
    /\ UNCHANGED <<now, defaultExpiration, gcInterval, buf, bufOf, items, muWriter,
                   crashed, lastSet>>

(***************************************************************************)
(* encoding/gob, as Save and Load use it.  A stream is a sequence of       *)
(* numbers: the number of entries, then for every entry, in the order the  *)
(* map iteration yields them, the key, the object and the expiration.      *)
(* Integers travel as gob sends them: the sign in bit 0.                   *)
(***************************************************************************)
KeyCode(k) == CASE k = "a" -> 1 [] k = "b" -> 2
KeyCodes == {1, 2}
KeyOf(c) == CASE c = 1 -> "a" [] c = 2 -> "b"

\* the objects whose type gob can register and encode
Encodable(o) == o \in {"v1", "v2"}
ObjCode(o) == CASE o = "v1" -> 1 [] o = "v2" -> 2 [] OTHER -> 0
ObjCodes == {1, 2}
ObjOf(c) == CASE c = 1 -> "v1" [] c = 2 -> "v2"

EncodeInt(i) == IF i < 0 THEN 2 * (0 - i) - 1 ELSE 2 * i
DecodeInt(u) == IF u % 2 = 1 THEN 0 - ((u + 1) \div 2) ELSE u \div 2

\* the orders in which a range over the map can yield its keys
Orders(S) ==
    {q \in [1 .. Cardinality(S) -> S] :
        \A i, j \in 1 .. Cardinality(S) : q[i] = q[j] => i = j}

\* what the encoder sends for one entry of the map
EncodeEntry(k, it) == <<KeyCode(k), ObjCode(it.Object), EncodeInt(it.Expiration)>>

RECURSIVE EncodeEntries(_, _, _)
EncodeEntries(m, ord, i) ==
    IF i > Len(ord) THEN << >>
    ELSE EncodeEntry(ord[i], m[ord[i]]) \o EncodeEntries(m, ord, i + 1)

\* enc.Encode(&c.items), line 174, for one iteration order
Encode(m, ord) == <<Cardinality(DOMAIN m)>> \o EncodeEntries(m, ord, 1)

RECURSIVE DecodeEntries(_, _, _, _)
DecodeEntries(s, i, n, acc) ==
    IF n = 0 THEN [items |-> acc, err |-> "nil"]
    ELSE IF i + 2 > Len(s) THEN [items |-> acc, err |-> "DecodingError"]
    ELSE IF s[i] \notin KeyCodes \/ s[i + 1] \notin ObjCodes
         THEN [items |-> acc, err |-> "DecodingError"]
    ELSE DecodeEntries(s, i + 3, n - 1,
            Put(acc, KeyOf(s[i]), Item(ObjOf(s[i + 1]), DecodeInt(s[i + 2]))))

\* dec.Decode(&items), line 195: the map filled so far, and the error
Decode(s) ==
    IF Len(s) = 0 THEN [items |-> EmptyMap, err |-> "DecodingError"]
    ELSE DecodeEntries(s, 2, s[1], EmptyMap)

(***************************************************************************)
(* Save(w), lines 161-176.  The writer is the host's buffer or a sink the  *)
(* host never reads.                                                       *)
(***************************************************************************)
\* line 169: c.mu.RLock() is called
SaveCall(p, W) ==
    /\ ~crashed
    /\ pc[p] = "idle"
    /\ \E w \in W : loc' = [loc EXCEPT ![p] = [Loc0 EXCEPT !.k = w]]
    /\ pc' = [pc EXCEPT ![p] = "SaveWait"]
    /\ ret' = RetNone
    /\ UNCHANGED <<now, defaultExpiration, gcInterval, buf, bufOf, items, muWriter,
                   muReaders, crashed, lastSet>>

\* lines 171-173: the Register loop.  A value gob cannot take makes Save
\* return an error (the recover of lines 164-168, or Encode's own error);
\* the deferred RUnlock runs on that path too.  Otherwise Encode starts with
\* the number of entries.
SaveBody(p) ==
    /\ ~crashed
    /\ pc[p] = "SaveBody"
    /\ IF \A k \in DOMAIN items : Encodable(items[k].Object)
       THEN /\ ret' = RetNone
            /\ pc' = [pc EXCEPT ![p] = "SaveEncode"]
            /\ loc' = [loc EXCEPT ![p].rem = DOMAIN items,
                                  ![p].src = <<Cardinality(DOMAIN items)>>]
            /\ UNCHANGED muReaders
       ELSE /\ ret' = RetErr(p, "Save", "", "EncodingError")
            /\ muReaders' = muReaders \ {p}
            /\ pc' = [pc EXCEPT ![p] = "idle"]
            /\ loc' = [loc EXCEPT ![p] = Loc0]
    /\ UNCHANGED <<now, defaultExpiration, gcInterval, buf, bufOf, items, muWriter,
                   crashed, lastSet>>

\* line 174: Encode walks the map and sends one entry, read from c.items
SaveEncode(p) ==
    /\ ~crashed
    /\ pc[p] = "SaveEncode"
    /\ loc[p].rem /= {}
    /\ \E k \in loc[p].rem :
          loc' = [loc EXCEPT ![p].rem = loc[p].rem \ {k},
                             ![p].src = IF k \in DOMAIN items
                                        THEN loc[p].src \o EncodeEntry(k, items[k])
                                        ELSE loc[p].src]
    /\ ret' = RetNone
    /\ UNCHANGED <<now, defaultExpiration, gcInterval, buf, bufOf, items, muWriter,
                   muReaders, pc, crashed, lastSet>>

\* lines 174-175: the message goes to the writer, then the deferred RUnlock
SaveReturn(p) ==
    /\ ~crashed
    /\ pc[p] = "SaveEncode"
    /\ loc[p].rem = {}
    /\ IF loc[p].k = "buf"
       THEN buf' = loc[p].src /\ bufOf' = items
       ELSE UNCHANGED <<buf, bufOf>>
    /\ ret' = RetVoid(p, "Save", "")
    /\ muReaders' = muReaders \ {p}
    /\ pc' = [pc EXCEPT ![p] = "idle"]
    /\ loc' = [loc EXCEPT ![p] = Loc0]
    /\ UNCHANGED <<now, defaultExpiration, gcInterval, items, muWriter, crashed,
                   lastSet>>

(***************************************************************************)
(* Load(r), lines 192-208                                                  *)
(***************************************************************************)
\* Load is called with a reader over the stream s
LoadCall(p, S) ==
    /\ ~crashed
    /\ pc[p] = "idle"
    /\ \E s \in S : loc' = [loc EXCEPT ![p] = [Loc0 EXCEPT !.src = s]]
    /\ pc' = [pc EXCEPT ![p] = "LoadDecode"]
    /\ ret' = RetNone
    /\ UNCHANGED <<now, defaultExpiration, gcInterval, buf, bufOf, items, muWriter,
                   muReaders, crashed, lastSet>>

\* line 196 with the test dropped
LoadFails_Never(err) == FALSE

\* line 196
LoadFails(err) == err /= "nil"

\* lines 193-199: decode into a local map; return the error, or call Lock
LoadDecode(p) ==
    /\ ~crashed
    /\ pc[p] = "LoadDecode"
    /\ LET r == Decode(loc[p].src)
       IN  IF LoadFails(r.err)
           THEN /\ ret' = RetErr(p, "Load", "", r.err)
                /\ pc' = [pc EXCEPT ![p] = "idle"]
                /\ loc' = [loc EXCEPT ![p] = Loc0]
           ELSE /\ ret' = RetNone
                /\ pc' = [pc EXCEPT ![p] = "LoadWait"]
                /\ loc' = [loc EXCEPT ![p].snap = r.items,
                                      ![p].rem = DOMAIN r.items]
    /\ UNCHANGED <<now, defaultExpiration, gcInterval, buf, bufOf, items, muWriter,
                   muReaders, crashed, lastSet>>

\* line 203 with only the first test
LoadOverwrites_Always(m, k, t) == TRUE
\* line 203 with "or" taken for "and"
LoadOverwrites_And(m, k, t) == k \in DOMAIN m /\ Expired(m[k], t)

\* line 203 without its second test
LoadOverwrites_OnlyAbsent(m, k, t) == k \notin DOMAIN m

\* line 203: !found || ov.Expired()
LoadOverwrites(m, k, t) == k \notin DOMAIN m \/ Expired(m[k], t)

\* lines 201-206: one iteration of the merge, in the order the range yields
LoadMerge(p) ==
    /\ ~crashed
    /\ pc[p] = "LoadBody"
    /\ loc[p].rem /= {}
    /\ \E k \in loc[p].rem :
          /\ IF LoadOverwrites(items, k, now)
             THEN /\ items' = Put(items, k, loc[p].snap[k])
                  /\ lastSet' = Touch(k)
             ELSE UNCHANGED <<items, lastSet>>
          /\ loc' = [loc EXCEPT ![p].rem = loc[p].rem \ {k}]
    /\ ret' = RetNone
    /\ UNCHANGED <<now, defaultExpiration, gcInterval, buf, bufOf, muWriter, muReaders,
                   pc, crashed>>

\* line 207 and the deferred Unlock
LoadReturn(p) ==
    /\ ~crashed
    /\ pc[p] = "LoadBody"
    /\ loc[p].rem = {}
    /\ muWriter' = NoProc
    /\ pc' = [pc EXCEPT ![p] = "idle"]
    /\ ret' = RetVoid(p, "Load", "")
    /\ loc' = [loc EXCEPT ![p] = Loc0]
    /\ UNCHANGED <<now, defaultExpiration, gcInterval, buf, bufOf, items, muReaders,
                   crashed, lastSet>>

(***************************************************************************)
(* DeleteExpired, lines 61-71, called by gcLoop and by the host            *)
(***************************************************************************)
\* line 62: now := time.Now().UnixNano()
DeleteExpiredCall(p) ==
    /\ ~crashed
    /\ pc[p] = "idle"
    /\ loc' = [loc EXCEPT ![p] = [Loc0 EXCEPT !.t = now]]
    /\ pc' = [pc EXCEPT ![p] = "DECall"]
    /\ ret' = RetNone
    /\ UNCHANGED <<now, defaultExpiration, gcInterval, buf, bufOf, items, muWriter, muReaders,
                   crashed, lastSet>>

\* line 63: c.mu.Lock() is called
DELock(p) ==
    /\ ~crashed
    /\ pc[p] = "DECall"
    /\ pc' = [pc EXCEPT ![p] = "DEWait"]
    /\ ret' = RetNone
    /\ UNCHANGED <<now, defaultExpiration, gcInterval, buf, bufOf, items, muWriter, muReaders,
                   loc, crashed, lastSet>>

\* DeleteExpired without its deferred Unlock
DEBody_KeepsLock(p) ==
    /\ ~crashed
    /\ pc[p] = "DEBody"
    /\ items' = Sweep(items, loc[p].t)
    /\ pc' = [pc EXCEPT ![p] = Home(p)]
    /\ ret' = RetVoid(p, "DeleteExpired", "")
    /\ loc' = [loc EXCEPT ![p] = Loc0]
    /\ UNCHANGED <<now, defaultExpiration, gcInterval, buf, bufOf, muWriter, muReaders,
                   crashed, lastSet>>

\* lines 66-70 and the deferred Unlock
DEBody(p) ==
    /\ ~crashed
    /\ pc[p] = "DEBody"
    /\ items' = Sweep(items, loc[p].t)
    /\ muWriter' = NoProc
    /\ pc' = [pc EXCEPT ![p] = Home(p)]
    /\ ret' = RetVoid(p, "DeleteExpired", "")
    /\ loc' = [loc EXCEPT ![p] = Loc0]
    /\ UNCHANGED <<now, defaultExpiration, gcInterval, buf, bufOf, muReaders, crashed, lastSet>>

(***************************************************************************)
(* gcLoop, lines 43-54                                                     *)
(***************************************************************************)
\* line 44: time.NewTicker panics on a non-positive interval, and nothing
\* recovers a panic of this goroutine
GcStart ==
    /\ ~crashed
    /\ pc[Reaper] = "gcStart"
    /\ IF gcInterval > 0
       THEN pc' = [pc EXCEPT ![Reaper] = "gcSelect"] /\ crashed' = FALSE
       ELSE pc' = [pc EXCEPT ![Reaper] = "gcPanic"] /\ crashed' = TRUE
    /\ ret' = RetNone
    /\ UNCHANGED <<now, defaultExpiration, gcInterval, buf, bufOf, items, muWriter, muReaders,
                   loc, lastSet>>

\* lines 47-48: a tick is received and DeleteExpired reads the clock
GcTick ==
    /\ ~crashed
    /\ pc[Reaper] = "gcSelect"
    /\ loc' = [loc EXCEPT ![Reaper] = [Loc0 EXCEPT !.t = now]]
    /\ pc' = [pc EXCEPT ![Reaper] = "DECall"]
    /\ ret' = RetNone
    /\ UNCHANGED <<now, defaultExpiration, gcInterval, buf, bufOf, items, muWriter, muReaders,
                   crashed, lastSet>>

(***************************************************************************)
(* StopGc, lines 238-240, and the stop case of gcLoop, lines 49-51.  The   *)
(* channel is unbuffered: the send returns when gcLoop receives.           *)
(***************************************************************************)
\* a send that gives up when nobody is receiving
StopGcCall_NonBlocking(p) ==
    /\ ~crashed
    /\ pc[p] = "idle"
    /\ ret' = RetVoid(p, "StopGc", "")
    /\ UNCHANGED <<now, defaultExpiration, gcInterval, buf, bufOf, items, muWriter,
                   muReaders, pc, loc, crashed, lastSet>>

\* line 239: the send on c.stopGc starts and blocks
StopGcCall(p) ==
    /\ ~crashed
    /\ pc[p] = "idle"
    /\ pc' = [pc EXCEPT ![p] = "StopSend"]
    /\ ret' = RetNone
    /\ UNCHANGED <<now, defaultExpiration, gcInterval, buf, bufOf, items, muWriter,
                   muReaders, loc, crashed, lastSet>>

\* line 49: the select of gcLoop receives from p, whose StopGc returns
GcStop(p) ==
    /\ ~crashed
    /\ pc[Reaper] = "gcSelect"
    /\ pc[p] = "StopSend"
    /\ pc' = [pc EXCEPT ![Reaper] = "gcStop", ![p] = "idle"]
    /\ ret' = RetVoid(p, "StopGc", "")
    /\ UNCHANGED <<now, defaultExpiration, gcInterval, buf, bufOf, items, muWriter,
                   muReaders, loc, crashed, lastSet>>

\* the stop case without its return: the loop goes round again
GcExit_Loops ==
    /\ ~crashed
    /\ pc[Reaper] = "gcStop"
    /\ pc' = [pc EXCEPT ![Reaper] = "gcSelect"]
    /\ ret' = RetNone
    /\ UNCHANGED <<now, defaultExpiration, gcInterval, buf, bufOf, items, muWriter,
                   muReaders, loc, crashed, lastSet>>

\* lines 50-51: ticker.Stop() and return: the goroutine ends
GcExit ==
    /\ ~crashed
    /\ pc[Reaper] = "gcStop"
    /\ pc' = [pc EXCEPT ![Reaper] = "gcDone"]
    /\ ret' = RetNone
    /\ UNCHANGED <<now, defaultExpiration, gcInterval, buf, bufOf, items, muWriter,
                   muReaders, loc, crashed, lastSet>>

(***************************************************************************)
(* The specifications.                                                     *)
(***************************************************************************)
\* NewCache, lines 243-252, has returned
InitWith(ttls, gcs) ==
    /\ now = 0
    /\ defaultExpiration \in ttls
    /\ gcInterval \in gcs
    /\ items = EmptyMap
    /\ muWriter = NoProc
    /\ muReaders = {}
    /\ pc = [p \in Procs |-> IF p = Reaper THEN "gcStart" ELSE "idle"]
    /\ loc = [p \in Procs |-> Loc0]
    /\ ret = RetNone
    /\ crashed = FALSE
    /\ lastSet = {}
    /\ buf = << >>
    /\ bufOf = EmptyMap

\* the value a host goroutine stores names the goroutine
ValueOf(p) == IF p = "c1" THEN {"v1"} ELSE {"v2"}

(***************************************************************************)
(* Spec: two host goroutines race on one key with Set, Get, Add, Replace   *)
(* and Delete while gcLoop sweeps.                                         *)
(***************************************************************************)
Init == InitWith({1}, {1})

Next ==
    \/ Tick
    \/ \E p \in Procs : Lock(p)
    \/ \E p \in Procs : RLock(p)
    \/ \E p \in Callers : SetCall(p, {"a"}, ValueOf(p), Durations)
    \/ \E p \in Callers : SetLock(p)
    \/ \E p \in Callers : SetBody(p)
    \/ \E p \in Callers : GetCall(p, {"a"})
    \/ \E p \in Callers : GetBody(p)
    \/ \E p \in Callers : DeleteCall(p, {"a"})
    \/ \E p \in Callers : DeleteBody(p)
    \/ \E p \in Callers : AddCall(p, {"a"}, ValueOf(p), Durations)
    \/ \E p \in Callers : AddCheck(p)
    \/ \E p \in Callers : AddSet(p)
    \/ \E p \in Callers : ReplaceCall(p, {"a"}, ValueOf(p), Durations)
    \/ \E p \in Callers : ReplaceCheck(p)
    \/ \E p \in Callers : ReplaceSet(p)
    \/ GcStart
    \/ GcTick
    \/ DELock(Reaper)
    \/ DEBody(Reaper)

Spec == Init /\ [][Next]_vars

(***************************************************************************)
(* SpecSeq: one host goroutine works on two keys while gcLoop sweeps; it    *)
(* stores v1 with Set and offers v2 to Add and Replace.                    *)
(***************************************************************************)
SeqKeys == {"a", "b"}

InitSeq == InitWith({0}, {1})

NextSeq ==
    \/ Tick
    \/ \E p \in Procs : Lock(p)
    \/ RLock("c1")
    \/ SetCall("c1", SeqKeys, {"v1"}, Durations)
    \/ SetLock("c1")
    \/ SetBody("c1")
    \/ GetCall("c1", SeqKeys)
    \/ GetBody("c1")
    \/ DeleteCall("c1", SeqKeys)
    \/ DeleteBody("c1")
    \/ AddCall("c1", SeqKeys, {"v2"}, Durations)
    \/ AddCheck("c1")
    \/ AddSet("c1")
    \/ ReplaceCall("c1", SeqKeys, {"v2"}, Durations)
    \/ ReplaceCheck("c1")
    \/ ReplaceSet("c1")
    \/ GcStart
    \/ GcTick
    \/ DELock(Reaper)
    \/ DEBody(Reaper)

SpecSeq == InitSeq /\ [][NextSeq]_vars
(***************************************************************************)
(* SpecLoad: c1 loads snapshots the host got from elsewhere while c2       *)
(* writes and deletes.                                                     *)
(***************************************************************************)
\* a snapshot of two entries, one of an entry whose expiration is negative,
\* the first cut after its first entry, an empty input, an unknown type
HostStreams ==
    { Encode([k \in {"a", "b"} |-> IF k = "a" THEN Item("v1", 1)
                                   ELSE Item("v1", 0)], <<"a", "b">>),
      Encode([k \in {"a"} |-> Item("v1", MinInt)], <<"a">>),
      <<2, 1, 1, 2>>,
      << >>,
      <<1, 2, 9, 0>> }

InitLoad == InitWith({0}, {1})

NextLoad ==
    \/ Tick
    \/ \E p \in Callers : Lock(p)
    \/ LoadCall("c1", HostStreams)
    \/ LoadDecode("c1")
    \/ LoadMerge("c1")
    \/ LoadReturn("c1")
    \/ SetCall("c2", {"a", "b"}, {"v2"}, Durations)
    \/ SetLock("c2")
    \/ SetBody("c2")
    \/ DeleteCall("c2", {"a", "b"})
    \/ DeleteBody("c2")

SpecLoad == InitLoad /\ [][NextLoad]_vars

(***************************************************************************)
(* SpecRT: one host goroutine fills the cache, saves it into its buffer,   *)
(* clears the cache and loads the buffer.                                  *)
(***************************************************************************)
InitRT == InitWith({0}, {1})

NextRT ==
    \/ Tick
    \/ Lock("c1")
    \/ RLock("c1")
    \/ (buf = << >> /\ SetCall("c1", {"a", "b"}, {"v1", "v2"}, Durations))
    \/ SetLock("c1")
    \/ SetBody("c1")
    \/ (buf = << >> /\ SaveCall("c1", {"buf"}))
    \/ SaveBody("c1")
    \/ SaveEncode("c1")
    \/ SaveReturn("c1")
    \/ (buf /= << >> /\ ClearCall("c1"))
    \/ ClearBody("c1")
    \/ (buf /= << >> /\ LoadCall("c1", {buf}))
    \/ LoadDecode("c1")
    \/ LoadMerge("c1")
    \/ LoadReturn("c1")

SpecRT == InitRT /\ [][NextRT]_vars

(***************************************************************************)
(* FairGc: one host goroutine stores entries under one key while gcLoop    *)
(* runs.  The ticker keeps firing, every goroutine that can take a step    *)
(* takes it, and gcLoop, blocked in Lock, gets the lock once it has been   *)
(* free often enough (sync.Mutex hands the lock to a starving waiter).     *)
(***************************************************************************)
InitGc == InitWith({0}, {1})

NextGc ==
    \/ Tick
    \/ \E p \in Procs : Lock(p)
    \/ SetCall("c1", {"a"}, {"v1"}, Durations)
    \/ SetLock("c1")
    \/ SetBody("c1")
    \/ GcStart
    \/ GcTick
    \/ DELock(Reaper)
    \/ DEBody(Reaper)

FairGc ==
    /\ InitGc
    /\ [][NextGc]_vars
    /\ WF_vars(Tick)
    /\ WF_vars(GcStart)
    /\ WF_vars(GcTick)
    /\ WF_vars(DELock(Reaper))
    /\ SF_vars(Lock(Reaper))
    /\ WF_vars(DEBody(Reaper))
    /\ WF_vars(SetLock("c1"))
    /\ SF_vars(Lock("c1"))
    /\ WF_vars(SetBody("c1"))

(***************************************************************************)
(* SpecStop: one host goroutine uses the cache, stops gcLoop at some       *)
(* point and goes on using the cache.                                      *)
(***************************************************************************)
InitStop == InitWith({0}, {1})

NextStop ==
    \/ Tick
    \/ \E p \in Procs : Lock(p)
    \/ RLock("c1")
    \/ SetCall("c1", {"a"}, {"v1"}, {1, NoExpiration})
    \/ SetLock("c1")
    \/ SetBody("c1")
    \/ GetCall("c1", {"a"})
    \/ GetBody("c1")
    \/ CountCall("c1")
    \/ CountBody("c1")
    \/ DeleteCall("c1", {"a"})
    \/ DeleteBody("c1")
    \/ AddCall("c1", {"a"}, {"v2"}, {1})
    \/ AddCheck("c1")
    \/ AddSet("c1")
    \/ ReplaceCall("c1", {"a"}, {"v2"}, {1})
    \/ ReplaceCheck("c1")
    \/ ReplaceSet("c1")
    \/ ClearCall("c1")
    \/ ClearBody("c1")
    \/ DeleteExpiredCall("c1")
    \/ DELock("c1")
    \/ DEBody("c1")
    \/ StopGcCall("c1")
    \/ GcStop("c1")
    \/ GcExit
    \/ GcStart
    \/ GcTick
    \/ DELock(Reaper)
    \/ DEBody(Reaper)

SpecStop == InitStop /\ [][NextStop]_vars

(***************************************************************************)
(* SpecZero: NewCache was called with gcInterval = 0; one host goroutine   *)
(* uses the cache and sweeps it by hand.                                   *)
(***************************************************************************)
InitZero == InitWith({0}, {0})

NextZero ==
    \/ Tick
    \/ Lock("c1")
    \/ RLock("c1")
    \/ SetCall("c1", {"a", "b"}, {"v1"}, {1, NoExpiration})
    \/ SetLock("c1")
    \/ SetBody("c1")
    \/ GetCall("c1", {"a", "b"})
    \/ GetBody("c1")
    \/ CountCall("c1")
    \/ CountBody("c1")
    \/ DeleteCall("c1", {"a", "b"})
    \/ DeleteBody("c1")
    \/ DeleteExpiredCall("c1")
    \/ DELock("c1")
    \/ DEBody("c1")
    \/ GcStart

SpecZero == InitZero /\ [][NextZero]_vars

(***************************************************************************)
(* SpecLock: two host goroutines make every call of the API on one key     *)
(* while gcLoop sweeps.                                                    *)
(***************************************************************************)
\* the snapshot the hosts load: one entry that never expires
LockStreams == {Encode([k \in {"a"} |-> Item("v1", 0)], <<"a">>)}

InitLock == InitWith({0}, {1})

NextLock ==
    \/ Tick
    \/ \E p \in Procs : Lock(p)
    \/ \E p \in Callers : RLock(p)
    \/ \E p \in Callers : SetCall(p, {"a"}, ValueOf(p), {1})
    \/ \E p \in Callers : SetLock(p)
    \/ \E p \in Callers : SetBody(p)
    \/ \E p \in Callers : GetCall(p, {"a"})
    \/ \E p \in Callers : GetBody(p)
    \/ \E p \in Callers : CountCall(p)
    \/ \E p \in Callers : CountBody(p)
    \/ \E p \in Callers : DeleteCall(p, {"a"})
    \/ \E p \in Callers : DeleteBody(p)
    \/ \E p \in Callers : ClearCall(p)
    \/ \E p \in Callers : ClearBody(p)
    \/ \E p \in Callers : AddCall(p, {"a"}, ValueOf(p), {1})
    \/ \E p \in Callers : AddCheck(p)
    \/ \E p \in Callers : AddSet(p)
    \/ \E p \in Callers : ReplaceCall(p, {"a"}, ValueOf(p), {1})
    \/ \E p \in Callers : ReplaceCheck(p)
    \/ \E p \in Callers : ReplaceSet(p)
    \/ \E p \in Callers : SaveCall(p, {"sink"})
    \/ \E p \in Callers : SaveBody(p)
    \/ \E p \in Callers : SaveEncode(p)
    \/ \E p \in Callers : SaveReturn(p)
    \/ \E p \in Callers : LoadCall(p, LockStreams)
    \/ \E p \in Callers : LoadDecode(p)
    \/ \E p \in Callers : LoadMerge(p)
    \/ \E p \in Callers : LoadReturn(p)
    \/ GcStart
    \/ GcTick
    \/ DELock(Reaper)
    \/ DEBody(Reaper)

SpecLock == InitLock /\ [][NextLock]_vars

(***************************************************************************)
(* SpecRead: c1 stores values, one of a type gob cannot encode among them, *)
(* while c2 reads with Get, Count and Save and gcLoop sweeps.              *)
(***************************************************************************)
InitRead == InitWith({0}, {1})

NextRead ==
    \/ Tick
    \/ \E p \in Procs : Lock(p)
    \/ RLock("c2")
    \/ SetCall("c1", {"a", "b"}, {"v1", "fn"}, {1, NoExpiration})
    \/ SetLock("c1")
    \/ SetBody("c1")
    \/ GetCall("c2", {"a", "b"})
    \/ GetBody("c2")
    \/ CountCall("c2")
    \/ CountBody("c2")
    \/ SaveCall("c2", {"sink"})
    \/ SaveBody("c2")
    \/ SaveEncode("c2")
    \/ SaveReturn("c2")
    \/ GcStart
    \/ GcTick
    \/ DELock(Reaper)
    \/ DEBody(Reaper)

SpecRead == InitRead /\ [][NextRead]_vars

(***************************************************************************)
(* SpecSweep: c1 loads snapshots and sweeps by hand, c2 stores entries,    *)
(* gcLoop sweeps.                                                          *)
(***************************************************************************)
\* a snapshot of an entry that expired at time 1, and one of an entry whose
\* expiration is the least int64
SweepStreams ==
    { Encode([k \in {"b"} |-> Item("v1", 1)], <<"b">>),
      Encode([k \in {"b"} |-> Item("v1", MinInt)], <<"b">>) }

InitSweep == InitWith({0}, {1})

NextSweep ==
    \/ Tick
    \/ \E p \in Procs : Lock(p)
    \/ LoadCall("c1", SweepStreams)
    \/ LoadDecode("c1")
    \/ LoadMerge("c1")
    \/ LoadReturn("c1")
    \/ DeleteExpiredCall("c1")
    \/ DELock("c1")
    \/ DEBody("c1")
    \/ SetCall("c2", {"a"}, {"v2"}, Durations)
    \/ SetLock("c2")
    \/ SetBody("c2")
    \/ GcStart
    \/ GcTick
    \/ DELock(Reaper)
    \/ DEBody(Reaper)

SpecSweep == InitSweep /\ [][NextSweep]_vars

(***************************************************************************)
(* SpecSave: c1 saves the cache into its buffer again and again while c2   *)
(* stores, deletes and clears; one of the values c2 stores is of a type    *)
(* gob cannot encode.                                                      *)
(***************************************************************************)
InitSave == InitWith({0}, {1})

NextSave ==
    \/ Tick
    \/ Lock("c2")
    \/ RLock("c1")
    \/ SaveCall("c1", {"buf"})
    \/ SaveBody("c1")
    \/ SaveEncode("c1")
    \/ SaveReturn("c1")
    \/ SetCall("c2", {"a", "b"}, {"v2", "fn"}, {1, NoExpiration})
    \/ SetLock("c2")
    \/ SetBody("c2")
    \/ DeleteCall("c2", {"a", "b"})
    \/ DeleteBody("c2")
    \/ ClearCall("c2")
    \/ ClearBody("c2")

SpecSave == InitSave /\ [][NextSave]_vars

(***************************************************************************)
(* FairStop: c1 calls StopGc, once or more, while c2 uses the cache and    *)
(* gcLoop sweeps.  Every goroutine that can take a step takes it; a        *)
(* goroutine blocked in Lock or RLock gets the lock once it has been free  *)
(* often enough; and the select of gcLoop, which picks at random among its *)
(* ready cases, picks the stop case once it has been ready often enough.   *)
(***************************************************************************)
InitFairStop == InitWith({0}, {1})

NextFairStop ==
    \/ Tick
    \/ Lock(Reaper)
    \/ Lock("c2")
    \/ RLock("c2")
    \/ StopGcCall("c1")
    \/ GcStop("c1")
    \/ GcExit
    \/ SetCall("c2", {"a"}, {"v2"}, {1})
    \/ SetLock("c2")
    \/ SetBody("c2")
    \/ GetCall("c2", {"a"})
    \/ GetBody("c2")
    \/ DeleteCall("c2", {"a"})
    \/ DeleteBody("c2")
    \/ GcStart
    \/ GcTick
    \/ DELock(Reaper)
    \/ DEBody(Reaper)

FairStop ==
    /\ InitFairStop
    /\ [][NextFairStop]_vars
    /\ WF_vars(Tick)
    /\ WF_vars(GcStart)
    /\ WF_vars(GcTick)
    /\ SF_vars(GcStop("c1"))
    /\ WF_vars(GcExit)
    /\ WF_vars(DELock(Reaper))
    /\ SF_vars(Lock(Reaper))
    /\ WF_vars(DEBody(Reaper))
    /\ WF_vars(SetLock("c2"))
    /\ SF_vars(Lock("c2"))
    /\ SF_vars(RLock("c2"))
    /\ WF_vars(SetBody("c2"))
    /\ WF_vars(GetBody("c2"))
    /\ WF_vars(DeleteBody("c2"))

(***************************************************************************)
(* Properties.                                                             *)
(***************************************************************************)
\* an entry for k that a reader at clock t must report: the zero expiration,
\* or an expiration not yet passed
Live(m, k, t) ==
    /\ k \in DOMAIN m
    /\ (m[k].Expiration = 0 \/ t <= m[k].Expiration)

\* C1: a Get(k) that reads right after a Set(k, v, d) with d > 0 has returned,
\* before the clock moves and before any other write touches k, returns
\* (v, true).
C1_GetAfterSet ==
    [][\A p \in Callers : \A x \in lastSet :
          (GetBody(p) /\ x[1] = loc[p].k)
             => (ret'.found /\ ret'.obj = x[2])]_vars

\* C2: Get(k) returns (value, true) exactly when the map holds an entry for k
\* whose expiration is 0 or not before the clock, and (nil, false) otherwise.
C2_GetIffLive ==
    [][\A p \in Callers :
          GetBody(p) =>
             LET k == loc[p].k
             IN  IF Live(items, k, now)
                 THEN ret' = Ret(p, "Get", k, items[k].Object, TRUE, "nil", 0)
                 ELSE ret' = Ret(p, "Get", k, "nil", FALSE, "nil", 0)]_vars

\* a Get has just found an entry that expires at this very instant
C2_Witness ==
    /\ ret.op = "Get" /\ ret.found
    /\ "a" \in DOMAIN items /\ items["a"].Expiration = now
    /\ now > 0

\* C3: a sweep removes only entries that are expired at the moment of the
\* removal, and an entry with the zero expiration is changed or removed by
\* nothing but a Set, Add, Replace or Delete of its key.
C3_SweepSparesLive ==
    [][/\ \A p \in Procs :
             DEBody(p) =>
                \A k \in DOMAIN items :
                   IF Live(items, k, now)
                   THEN k \in DOMAIN items' /\ items'[k] = items[k]
                   ELSE TRUE
       /\ \A k \in DOMAIN items :
             (items[k].Expiration = 0) =>
                \/ k \in DOMAIN items' /\ items'[k] = items[k]
                \/ \E p \in Callers :
                      /\ loc[p].k = k
                      /\ SetBody(p) \/ AddSet(p) \/ ReplaceSet(p) \/ DeleteBody(p)
      ]_vars

\* a sweep has just returned, the clock has reached its end, and an entry
\* that never expires is still stored beside nothing else
C3_Witness ==
    /\ ret.op = "DeleteExpired"
    /\ now = MaxTime
    /\ "a" \in DOMAIN items /\ items["a"].Expiration = 0

\* C4: an Add(k, v2, ttl) that finds a live entry for k returns the
\* AlreadyExists error, the call is over, and the map is what it was: the
\* entry for k keeps its value and its expiration.
C4_AddOnLive ==
    [][\A p \in Callers :
          (AddCheck(p) /\ Live(items, loc[p].k, now)) =>
             /\ ret' = RetErr(p, "Add", loc[p].k, "AlreadyExists")
             /\ pc'[p] = "idle"
             /\ items' = items]_vars

\* an Add on key a has just failed; a holds v1 and is live, b is stored too
C4_Witness ==
    /\ ret.op = "Add" /\ ret.k = "a" /\ ret.err = "AlreadyExists"
    /\ DOMAIN items = {"a", "b"}
    /\ items["a"].Object = "v1" /\ items["a"].Expiration = now

\* C5: Add writes only when no live entry for its key is stored at the
\* instant of the write, and stores its own value; it returns AlreadyExists
\* only when a live entry is stored, and then changes nothing.  Hence of
\* several Adds racing on a key one succeeds and the others fail.
C5_AddAtomic ==
    [][\A p \in Callers :
          /\ AddSet(p) =>
                /\ ~Live(items, loc[p].k, now)
                /\ items'[loc[p].k].Object = loc[p].v
          /\ (AddCheck(p) /\ ret'.err = "AlreadyExists") =>
                /\ Live(items, loc[p].k, now)
                /\ items' = items
          /\ pc[p] \in {"AddCheck", "AddSet"} => muWriter = p]_vars

\* c2's Add has just failed against the entry c1's Add stored while both
\* calls were in progress
C5_Witness ==
    /\ ret.who = "c2" /\ ret.op = "Add" /\ ret.err = "AlreadyExists"
    /\ "a" \in DOMAIN items /\ items["a"].Object = "v1"
    /\ pc["c1"] = "idle"
\* C6: a Replace(k, v, ttl) that finds no live entry for k (none stored, or
\* an expired one not yet swept) returns the NotFound error and leaves the
\* map as it was; one that finds a live entry stores v for k, with the zero
\* expiration exactly when the resolved duration is not positive, and
\* leaves the other keys alone.
C6_Replace ==
    [][\A p \in Callers :
          LET k == loc[p].k
              dd == IF loc[p].d = DefaultExpiration
                    THEN defaultExpiration ELSE loc[p].d
          IN  /\ (ReplaceCheck(p) /\ ~Live(items, k, now)) =>
                    /\ ret' = RetErr(p, "Replace", k, "NotFound")
                    /\ pc'[p] = "idle"
                    /\ items' = items
              /\ (ReplaceCheck(p) /\ Live(items, k, now)) =>
                    /\ pc'[p] = "ReplaceSet"
                    /\ items' = items
              /\ ReplaceSet(p) =>
                    /\ DOMAIN items' = DOMAIN items
                    /\ items'[k].Object = loc[p].v
                    /\ (items'[k].Expiration = 0) <=> (dd <= 0)
                    /\ (dd > 0 /\ now + dd <= MaxInt) =>
                          items'[k].Expiration = now + dd
                    /\ \A x \in DOMAIN items \ {k} : items'[x] = items[x]
                    /\ ret' = RetVoid(p, "Replace", k)]_vars

\* a Replace on key a has just failed against an expired entry that is
\* still stored
C6_Witness ==
    /\ ret.op = "Replace" /\ ret.k = "a" /\ ret.err = "NotFound"
    /\ "a" \in DOMAIN items /\ ~Live(items, "a", now)
    /\ "b" \in DOMAIN items
\* C7: an iteration of Load's merge changes no entry that is live at that
\* moment, whatever the snapshot holds for its key and whatever other
\* goroutines wrote since the snapshot was decoded.
C7_LoadKeepsLive ==
    [][\A p \in Callers :
          LoadMerge(p) =>
             \A k \in DOMAIN items :
                Live(items, k, now) =>
                   (k \in DOMAIN items' /\ items'[k] = items[k])]_vars

\* the merge has gone past key a, which the snapshot holds, and a still has
\* the live entry c2 stored
C7_Witness ==
    /\ pc["c1"] = "LoadBody"
    /\ "a" \in DOMAIN loc["c1"].snap /\ "a" \notin loc["c1"].rem
    /\ "a" \in DOMAIN items /\ items["a"].Object = "v2"
    /\ Live(items, "a", now)

\* a stream that holds a whole snapshot: the count, then that many entries
\* of known keys and types
WellFormed(s) ==
    /\ Len(s) >= 1
    /\ s[1] >= 0
    /\ Len(s) >= 1 + 3 * s[1]
    /\ \A i \in 1 .. s[1] : s[3 * i - 1] \in KeyCodes /\ s[3 * i] \in ObjCodes

\* C8: a Load whose stream does not decode returns an error and leaves the
\* map as it is, and no Load that goes on to the merge carries anything but
\* a wholly decoded snapshot.
C8_LoadAllOrNothing ==
    [][\A p \in Callers :
          /\ (LoadDecode(p) /\ ~WellFormed(loc[p].src)) =>
                /\ ret'.who = p /\ ret'.op = "Load" /\ ret'.err /= "nil"
                /\ pc'[p] = "idle"
                /\ items' = items
          /\ pc'[p] \in {"LoadWait", "LoadBody"} =>
                /\ WellFormed(loc'[p].src)
                /\ Cardinality(DOMAIN loc'[p].snap) = loc'[p].src[1]]_vars

\* a Load has just failed and the entries c2 stored are all there
C8_Witness ==
    /\ ret.op = "Load" /\ ret.err = "DecodingError"
    /\ DOMAIN items = {"a", "b"}

\* C9: a Load of the bytes a Save wrote, into a cache that is empty when the
\* merge starts, succeeds and leaves the map equal to the one that was
\* saved: the same keys, values and expirations, so that Get agrees on
\* every key at every time.
C9_RoundTrip ==
    [][\A p \in Callers :
          /\ (LoadDecode(p) /\ loc[p].src = buf) => pc'[p] = "LoadWait"
          /\ (LoadReturn(p) /\ loc[p].src = buf /\ loc[p].fresh) =>
                /\ ret'.err = "nil"
                /\ items' = bufOf
                /\ \A k \in {"a", "b"} : \A t \in 0 .. MaxTime :
                      get(items', k, t) = get(bufOf, k, t)]_vars

\* a Load of the buffer has just returned: two entries are back, one with an
\* expiration that has passed, one with the other value
C9_Witness ==
    /\ ret.op = "Load" /\ ret.err = "nil"
    /\ DOMAIN items = {"a", "b"} /\ items = bufOf
    /\ items["a"].Expiration = 1 /\ items["a"].Object = "v1"
    /\ items["b"].Object = "v2"
    /\ now = MaxTime

\* the entries a Set of c1 can store under key a
GcItems == {Item("v1", e) : e \in MinInt .. MaxInt}

\* C10: with gcLoop running, an entry whose expiration is set and has passed
\* is eventually removed from the map or overwritten.
C10_ExpiredRemoved ==
    \A it \in GcItems :
       (("a" \in DOMAIN items /\ items["a"] = it /\ Expired(it, now))
           ~> ~("a" \in DOMAIN items /\ items["a"] = it))

\* gcLoop has received the stop signal
Stopped == pc[Reaper] \in {"gcStop", "gcDone"}

\* C11: when StopGc returns gcLoop has left its loop for good and holds no
\* lock.  From then on an entry leaves the map or changes only by a Set, Add,
\* Replace or Delete of its key, a Clear or a DeleteExpired of a host
\* goroutine; Count returns the number of stored entries, the expired ones
\* included, and Get reports exactly the live ones.
C11_StoppedNoSweep ==
    [][/\ (ret'.op = "StopGc") => Stopped'
       /\ Stopped =>
             /\ Stopped'
             /\ muWriter /= Reaper
             /\ \A k \in DOMAIN items :
                   (k \notin DOMAIN items' \/ items'[k] /= items[k]) =>
                      \E p \in Callers :
                         \/ /\ loc[p].k = k
                            /\ SetBody(p) \/ AddSet(p) \/ ReplaceSet(p) \/ DeleteBody(p)
                         \/ ClearBody(p)
                         \/ DEBody(p)
             /\ \A p \in Callers :
                   /\ CountBody(p) => ret'.n = Cardinality(DOMAIN items)
                   /\ GetBody(p) => (ret'.found <=> Live(items, loc[p].k, now))
      ]_vars

\* gcLoop has ended, and a Count has just counted an entry whose positive
\* expiration has passed
C11_Witness ==
    /\ pc[Reaper] = "gcDone"
    /\ ret.op = "Count" /\ ret.n = 1
    /\ "a" \in DOMAIN items
    /\ items["a"].Expiration > 0 /\ now > items["a"].Expiration

\* C12: on a cache made with gcInterval = 0 nothing fails: the process does
\* not crash and the gcLoop goroutine does not end in a panic.
C12_ZeroUsable ==
    gcInterval = 0 => (~crashed /\ pc[Reaper] /= "gcPanic")

\* the positions at which a goroutine reads the map under the shared lock,
\* and those at which it reads and writes it under the exclusive lock
ReadBodyPcs == {"GetBody", "CountBody", "SaveBody", "SaveEncode"}
WriteBodyPcs == {"SetBody", "DeleteBody", "ClearBody", "AddCheck", "AddSet",
                 "ReplaceCheck", "ReplaceSet", "DEBody", "LoadBody"}

\* C13: a goroutine that reads the map in Get, Count or Save holds the
\* shared lock and no writer holds the exclusive one; a goroutine inside
\* Set, Delete, Clear, Add, Replace, DeleteExpired or Load's merge is the one
\* exclusive holder and nobody holds the shared lock; the map changes only
\* in a step of the exclusive holder.
C13_LockDiscipline ==
    [][/\ muWriter /= NoProc => muReaders = {}
       /\ \A p \in Procs :
             /\ pc[p] \in ReadBodyPcs => (p \in muReaders /\ muWriter = NoProc)
             /\ pc[p] \in WriteBodyPcs => (muWriter = p /\ muReaders = {})
             /\ (p \in muReaders) => pc[p] \in ReadBodyPcs
       /\ (muWriter /= NoProc) => pc[muWriter] \in WriteBodyPcs
       /\ (items' /= items) =>
             /\ muWriter /= NoProc
             /\ pc[muWriter] \in WriteBodyPcs
             /\ pc'[muWriter] /= pc[muWriter] \/ loc'[muWriter] /= loc[muWriter]
      ]_vars

\* both host goroutines hold the shared lock, one in Get and one in the
\* middle of Save's encoding, and gcLoop waits for the exclusive lock
C13_Witness ==
    /\ muReaders = {"c1", "c2"}
    /\ pc["c1"] = "GetBody" /\ pc["c2"] = "SaveEncode"
    /\ pc[Reaper] = "DEWait"

\* C14: Set, Add and Replace resolve the duration alike: the default
\* duration is replaced by the cache's default; a positive resolved duration
\* gives the expiration clock + duration, where the clock is the one read at
\* the resolution, and any other gives the expiration 0.  So what is stored
\* is 0 or later than that clock.
C14_Resolution ==
    [][\A p \in Callers :
          LET dA == IF loc[p].d = DefaultExpiration
                    THEN defaultExpiration ELSE loc[p].d
              k == loc[p].k
          IN  /\ (pc[p] = "idle" /\ pc'[p] = "SetCall") =>
                    /\ loc'[p].e = (IF loc'[p].d > 0 THEN now + loc'[p].d ELSE 0)
                    /\ loc'[p].e = 0 \/ loc'[p].e > now
              /\ SetBody(p) => items'[k].Expiration = loc[p].e
              /\ (AddSet(p) \/ ReplaceSet(p)) =>
                    /\ items'[k].Expiration = (IF dA > 0 THEN now + dA ELSE 0)
                    /\ items'[k].Expiration = 0 \/ items'[k].Expiration > now]_vars

\* the positions of a goroutine inside Get, Count or Save
ReadPcs == {"GetWait", "GetBody", "CountWait", "CountBody", "SaveWait",
            "SaveBody", "SaveEncode"}

\* C15: no step of a Get, a Count or a Save, from the call to the return,
\* changes the map: Get that finds an expired entry leaves it stored, and a
\* Save that returns an error leaves every entry as it was.
C15_ReadOnly ==
    [][\A p \in Callers :
          /\ ((pc[p] \in ReadPcs \/ pc'[p] \in ReadPcs)
                 /\ (pc'[p] /= pc[p] \/ loc'[p] /= loc[p])) => items' = items
          /\ (ret'.who = p /\ ret'.op \in {"Get", "Count", "Save"}) => items' = items
          /\ (GetBody(p) /\ loc[p].k \in DOMAIN items /\ ~ret'.found) =>
                (loc[p].k \in DOMAIN items' /\ items'[loc[p].k] = items[loc[p].k])
          /\ (SaveBody(p) /\ ret'.err /= "nil") => items' = items]_vars

\* a Get has just reported key a not found, and the expired entry of a is
\* still stored, beside an entry whose value gob cannot encode
C15_Witness ==
    /\ ret.op = "Get" /\ ret.k = "a" /\ ~ret.found
    /\ "a" \in DOMAIN items /\ Expired(items["a"], now)
    /\ "b" \in DOMAIN items /\ items["b"].Object = "fn"

\* C16: when DeleteExpired returns, the map holds no entry whose expiration
\* is not 0 and is earlier than the clock the sweep read when it started.
C16_SweepComplete ==
    [][\A p \in Procs :
          DEBody(p) =>
             \A k \in DOMAIN items' :
                ~(items'[k].Expiration /= 0 /\ items'[k].Expiration < loc[p].t)]_vars

\* the entries a well-formed stream carries, last occurrence of a key first
StreamEntry(s, k) ==
    LET i == CHOOSE j \in 1 .. s[1] :
                 /\ s[3 * j - 1] = KeyCode(k)
                 /\ \A h \in (j + 1) .. s[1] : s[3 * h - 1] /= KeyCode(k)
    IN  Item(ObjOf(s[3 * i]), DecodeInt(s[3 * i + 1]))
StreamKeys(s) == {KeyOf(s[3 * j - 1]) : j \in 1 .. s[1]}

\* C17: a Load that succeeds merges under one hold of the exclusive lock.
\* For every key of the snapshot, at the moment its turn comes: if no entry
\* is stored or the stored one is expired, the entry becomes the snapshot's,
\* value and expiration as they were saved; if a live one is stored it
\* stays.  No other key changes, no key is removed, and nobody else writes
\* before Load returns, with every key of the snapshot stored.
C17_LoadMerges ==
    [][\A p \in Callers :
          /\ (LoadDecode(p) /\ pc'[p] = "LoadWait") =>
                /\ DOMAIN loc'[p].snap = StreamKeys(loc[p].src)
                /\ \A k \in DOMAIN loc'[p].snap :
                      loc'[p].snap[k] = StreamEntry(loc[p].src, k)
          /\ LoadMerge(p) =>
                LET k == CHOOSE x \in loc[p].rem : x \notin loc'[p].rem
                IN  /\ loc'[p].rem = loc[p].rem \ {k}
                    /\ DOMAIN items' = DOMAIN items \cup {k}
                    /\ IF Live(items, k, now)
                       THEN items'[k] = items[k]
                       ELSE items'[k] = loc[p].snap[k]
                    /\ \A x \in DOMAIN items \ {k} : items'[x] = items[x]
                    /\ loc'[p].snap = loc[p].snap
          /\ (pc[p] = "LoadBody" /\ items' /= items) => LoadMerge(p)
          /\ LoadReturn(p) =>
                /\ ret' = RetVoid(p, "Load", "")
                /\ items' = items
                /\ DOMAIN loc[p].snap \subseteq DOMAIN items]_vars

\* a Load has just returned: key a holds the snapshot's entry, which had
\* expired at time 1 already, and key b keeps the live entry c2 stored
C17_Witness ==
    /\ ret.op = "Load" /\ ret.err = "nil"
    /\ now = MaxTime
    /\ DOMAIN items = {"a", "b"}
    /\ items["a"] = Item("v1", 1)
    /\ items["b"].Object = "v2"

\* C18: from the moment Save holds the shared lock to its return the map
\* does not change and no goroutine waiting for the exclusive lock gets it;
\* the bytes Save hands to the writer decode to the map as it is at that
\* time; and Save has released the lock when it returns, with or without
\* an error.
C18_SaveSnapshot ==
    [][\A p \in Callers :
          /\ pc[p] \in {"SaveBody", "SaveEncode"} =>
                /\ items' = items
                /\ p \in muReaders /\ muWriter = NoProc
                /\ \A q \in Procs : pc[q] \in WaitLockPcs => pc'[q] = pc[q]
          /\ SaveReturn(p) =>
                /\ Decode(loc[p].src) = [items |-> items, err |-> "nil"]
                /\ loc[p].k = "buf" => buf' = loc[p].src
          /\ (ret'.who = p /\ ret'.op = "Save") =>
                (p \notin muReaders' /\ pc'[p] = "idle")]_vars

\* Save is in the middle of its encoding of two entries, c2 waits in Lock
\* with a Delete
C18_Witness ==
    /\ pc["c1"] = "SaveEncode"
    /\ Cardinality(loc["c1"].rem) = 1 /\ DOMAIN items = {"a", "b"}
    /\ pc["c2"] = "DeleteWait"

\* C19: a StopGc called while gcLoop has not received a stop yet leads to
\* gcLoop receiving it, which is when the call returns, wherever gcLoop is
\* at the call: before its ticker, in its select, in a sweep or waiting for
\* the lock.  gcLoop then ends and stays ended, and it holds no lock from
\* the moment it has received the stop.
C19_StopTerminates ==
    /\ (pc["c1"] = "StopSend" /\ ~Stopped) ~> (Stopped /\ pc["c1"] /= "StopSend")
    /\ Stopped ~> (pc[Reaper] = "gcDone")
    /\ [](pc[Reaper] = "gcDone" => [](pc[Reaper] = "gcDone"))
    /\ [](Stopped => muWriter /= Reaper)

\* StopGc has been called while gcLoop waits for the lock that c2 holds
C19_Witness ==
    /\ pc["c1"] = "StopSend"
    /\ pc[Reaper] = "DEWait"
    /\ muWriter = "c2"

\* C20: a StopGc returns only in the step in which gcLoop receives its
\* signal, and gcLoop, once it has received one, receives no other; so a
\* StopGc called after that stays blocked in its send for ever.  It holds no
\* lock there, and the calls c2 has under way still come to their return.
C20_SecondStopBlocks ==
    /\ [][/\ (ret'.op = "StopGc") => (pc[Reaper] = "gcSelect" /\ Stopped')
          /\ Stopped => Stopped'
          /\ \A p \in Callers :
                (pc[p] = "StopSend" /\ Stopped) => pc'[p] = "StopSend"]_vars
    /\ [](\A p \in Callers :
             pc[p] = "StopSend" => (muWriter /= p /\ p \notin muReaders))
    /\ (pc["c1"] = "StopSend" /\ Stopped /\ pc["c2"] /= "idle")
          ~> (pc["c2"] = "idle")

\* gcLoop has ended, c1 is blocked in a StopGc, and a Set of c2 has just
\* returned
C20_Witness ==
    /\ pc["c1"] = "StopSend"
    /\ pc[Reaper] = "gcDone"
    /\ ret.who = "c2" /\ ret.op = "Set"
====
